---- MODULE Spec2Model ----
(***************************************************************************)
(* Device gateway REST front (cmd/device-gateway/server.go): the resource  *)
(* handlers turn one HTTP call into a DataRequest on the shared intake     *)
(* channel dataCh, wait on the call's own Reply channel and translate the  *)
(* AgentResponse into the HTTP response.                                   *)
(***************************************************************************)
EXTENDS Naturals, Sequences, FiniteSets, TLC

\* ------------------------------------------------------------------ bounds
MaxCalls == 2
MaxDataChCap == 1
MaxAgentHeld == 2

Calls == 1..MaxCalls

\* ------------------------------------------------------- program constants
StatusOK == 200
StatusNoContent == 204
StatusBadRequest == 400
StatusNotFound == 404
StatusMethodNotAllowed == 405
StatusUnsupportedMediaType == 415
StatusInternalServerError == 500

ProtocolTypeREST == "REST"
ProtocolTypeMQTT == "MQTT"
DataRequestTypeRead == "READ"
DataRequestTypeWrite == "WRITE"
Location == "/rest"

\* ----------------------------------------------------------- configuration
\* Config.Devices: devices own resources, a resource lists protocol bindings.
ConfGetPut ==
    << [Name |-> "d1",
        Resources |->
          << [Name |-> "temp",
              Protocols |-> << [Type |-> ProtocolTypeREST, Methods |-> <<"GET">>] >>],
             [Name |-> "led",
              Protocols |-> << [Type |-> ProtocolTypeMQTT, Methods |-> <<"PUB">>],
                               [Type |-> ProtocolTypeREST, Methods |-> <<"PUT">>] >>],
             [Name |-> "lux",
              Protocols |-> << [Type |-> ProtocolTypeMQTT, Methods |-> <<"SUB">>] >>] >>] >>

ConfBoth ==
    << [Name |-> "d1",
        Resources |->
          << [Name |-> "fan",
              Protocols |-> << [Type |-> ProtocolTypeREST,
                                Methods |-> <<"GET", "PUT">>] >>] >>] >>

Configs == {ConfGetPut, ConfBoth}

\* Device.ResourceId(name): the id derived from (owner, resource name).
ResourceId(device, name) == <<device.Name, name>>

\* uri := restConfig.Location + "/" + device.Name + "/" + resource.Name
ResourceUri(device, resource) == <<Location, device.Name, resource.Name>>

\* Config.FindResource(id): the resource whose derived id is id, if any.
RECURSIVE FindInResources(_, _, _)
FindInResources(device, resources, id) ==
    IF resources = <<>> THEN [found |-> FALSE, Protocols |-> <<>>]
    ELSE IF ResourceId(device, Head(resources).Name) = id
         THEN [found |-> TRUE, Protocols |-> Head(resources).Protocols]
         ELSE FindInResources(device, Tail(resources), id)

RECURSIVE FindResource(_, _)
FindResource(devices, id) ==
    IF devices = <<>> THEN [found |-> FALSE, Protocols |-> <<>>]
    ELSE LET r == FindInResources(Head(devices), Head(devices).Resources, id)
         IN IF r.found THEN r ELSE FindResource(Tail(devices), id)

\* ------------------------------------------------------------------ routing
NoHandlers == [u \in {} |-> 0]
EmptyMux == [panicked |-> FALSE, handlers |-> NoHandlers]

\* http.ServeMux.Handle(pattern, handler): a second registration of a
\* pattern panics.
Handle(m, pattern, h) ==
    IF m.panicked THEN m
    ELSE IF pattern \in DOMAIN m.handlers
         THEN [m EXCEPT !.panicked = TRUE]
         ELSE [m EXCEPT !.handlers = (pattern :> h) @@ m.handlers]

createResourceGetHandler(rid) == [kind |-> "GET", resourceId |-> rid]
createResourcePutHandler(rid) == [kind |-> "PUT", resourceId |-> rid]

RECURSIVE MountMethods(_, _, _, _)
MountMethods(m, uri, rid, methods) ==
    IF methods = <<>> THEN m
    ELSE LET m1 == CASE Head(methods) = "GET" ->
                          Handle(m, uri, createResourceGetHandler(rid))
                     [] Head(methods) = "PUT" ->
                          Handle(m, uri, createResourcePutHandler(rid))
                     [] OTHER -> m
         IN MountMethods(m1, uri, rid, Tail(methods))

RECURSIVE MountProtocols(_, _, _, _)
MountProtocols(m, device, resource, protocols) ==
    IF protocols = <<>> THEN m
    ELSE LET p == Head(protocols)
             m1 == IF p.Type # ProtocolTypeREST THEN m
                   ELSE MountMethods(m, ResourceUri(device, resource),
                                     ResourceId(device, resource.Name), p.Methods)
         IN MountProtocols(m1, device, resource, Tail(protocols))

RECURSIVE MountDeviceResources(_, _, _)
MountDeviceResources(m, device, resources) ==
    IF resources = <<>> THEN m
    ELSE MountDeviceResources(
             MountProtocols(m, device, Head(resources), Head(resources).Protocols),
             device, Tail(resources))

RECURSIVE MountDevices(_, _)
MountDevices(m, devices) ==
    IF devices = <<>> THEN m
    ELSE MountDevices(MountDeviceResources(m, Head(devices), Head(devices).Resources),
                      Tail(devices))

mountResources(conf) == MountDevices(EmptyMux, conf)

\* --------------------------------------------------------- request inputs
Methods == {"GET", "PUT"}
CtHeaders == {"", "a/b/c", "application/json", "Text/Plain; charset=utf-8"}
Bodies == {"", "on"}
Payloads == {"", "21.5"}
ReadError == "unexpected EOF"

\* mime.ParseMediaType(v) on the modelled header values: the media type is
\* lower-cased and its parameters are split off; an empty value and content
\* after the subtype are errors.
ParseMediaType(v) ==
    CASE v = "" -> [mediaType |-> "", err |-> "mime: no media type"]
      [] v = "application/json" -> [mediaType |-> "application/json", err |-> ""]
      [] v = "Text/Plain; charset=utf-8" -> [mediaType |-> "text/plain", err |-> ""]
      [] v = "a/b/c" ->
           [mediaType |-> "", err |-> "mime: unexpected content after media subtype"]

\* ------------------------------------------------------------------- state
VARIABLES
    phase,      \* "init", "serving" or "panicked" (RESTfulAPI.start)
    config,     \* the Config the API was constructed with
    mux,        \* serverMux: uri -> resource handler
    pc,         \* per call: Idle, Resolving, Dispatched, Awaiting, Delivered, Failed
    req,        \* per call: the inbound request
    mediaType,  \* per call: the handler's local mediaType
    dr,         \* per call: the handler's local DataRequest
    repl,       \* per call: the AgentResponse received on dr.Reply
    resp,       \* per call: what was written to the ResponseWriter
    abandoned,  \* per call: the transport gave up on the caller
    nchan,      \* number of Reply channels made so far
    dataCh,     \* buffer of the intake channel (calls whose DataRequest is queued)
    dataChCap,  \* capacity of the intake channel (made by the caller of newRESTfulAPI)
    held,       \* calls whose DataRequest the agent received and has not answered
    agentDead,  \* the agent subsystem crashed
    sent,       \* per call: how many DataRequests it sent on dataCh
    bodyRead,   \* per call: what ioutil.ReadAll(req.Body) returned
    store,      \* service catalog: the stored descriptors, in store order
    regResult   \* service catalog: the answer to the last request

vars == <<phase, config, mux, pc, req, mediaType, dr, repl, resp, abandoned,
          nchan, dataCh, dataChCap, held, agentDead, sent, bodyRead, store, regResult>>

brokerVars == <<phase, config, mux, pc, req, mediaType, dr, repl, resp, abandoned,
                nchan, dataCh, dataChCap, held, agentDead, sent, bodyRead>>

regVars == <<store, regResult>>

callVars == <<pc, req, mediaType, dr, repl, resp>>

NoReq == [method |-> "", uri |-> <<>>, contentType |-> ""]
NoArgs == [isNil |-> TRUE, bytes |-> ""]
NoDr == [ResourceId |-> <<>>, Type |-> "", Arguments |-> NoArgs, Reply |-> 0]
NoRepl == [IsError |-> FALSE, Payload |-> "", answers |-> 0]
NoResp == [status |-> 0, contentType |-> "", kind |-> "none", body |-> ""]
NotRead == [done |-> FALSE, body |-> "", err |-> ""]

Terminal == {"Delivered", "Failed"}

\* The service catalog's requests and its empty values.
NoId == <<>>
NoDescriptor == [id |-> NoId, name |-> "", status |-> ""]

\* The requests: method, shape of the path below the catalog's base URL,
\* and what the path, the query and the body carry.
RegRequest(method, path, id, d, page, perPage) ==
    [method |-> method, path |-> path, id |-> id, d |-> d,
     page |-> page, perPage |-> perPage]

NoRegRequest == RegRequest("", "", NoId, NoDescriptor, 0, 0)

Init ==
    /\ phase = "init"
    /\ config \in Configs
    /\ mux = NoHandlers
    /\ pc = [c \in Calls |-> "Idle"]
    /\ req = [c \in Calls |-> NoReq]
    /\ mediaType = [c \in Calls |-> ""]
    /\ dr = [c \in Calls |-> NoDr]
    /\ repl = [c \in Calls |-> NoRepl]
    /\ resp = [c \in Calls |-> NoResp]
    /\ abandoned = [c \in Calls |-> FALSE]
    /\ nchan = 0
    /\ dataCh = <<>>
    /\ dataChCap \in 0..MaxDataChCap
    /\ held = {}
    /\ agentDead = FALSE
    /\ sent = [c \in Calls |-> 0]
    /\ bodyRead = [c \in Calls |-> NotRead]
    /\ store = <<>>
    /\ regResult = [request |-> NoRegRequest, handler |-> "", status |-> "", items |-> <<>>]

\* ------------------------------------------------------------- responses
\* respondWithXxx: Content-Type application/json, the status, and the
\* errorResponse{Error: msg} as the body.
respondWith(status, msg) ==
    [status |-> status, contentType |-> "application/json", kind |-> "json", body |-> msg]

respondWithNotFound(msg) == respondWith(StatusNotFound, msg)
respondWithBadRequest(msg) == respondWith(StatusBadRequest, msg)
respondWithUnsupportedMediaType(msg) == respondWith(StatusUnsupportedMediaType, msg)
\* respondWithInternalServerError answering with a fixed message.
respondWithGenericError(msg) ==
    respondWith(StatusInternalServerError, "Internal Server Error")

respondWithInternalServerError(msg) == respondWith(StatusInternalServerError, msg)

\* GetResponse with the reply written under a fixed JSON content type.
GetResponseAsJson(mt, r) ==
    IF r.IsError THEN respondWithInternalServerError(r.Payload)
    ELSE [status |-> StatusOK, contentType |-> "application/json",
          kind |-> "bytes", body |-> r.Payload]

\* Response of the GET handler to the reply it received.
GetResponse(mt, r) ==
    IF r.IsError THEN respondWithInternalServerError(r.Payload)
    ELSE [status |-> StatusOK, contentType |-> mt, kind |-> "bytes", body |-> r.Payload]

\* Response of the PUT handler to the reply it received.
PutResponse(mt, r) ==
    IF r.IsError THEN respondWithInternalServerError(r.Payload)
    ELSE [status |-> StatusNoContent, contentType |-> mt, kind |-> "none", body |-> ""]

\* ------------------------------------------------------------- resolution
RECURSIVE HasRest(_)
HasRest(protocols) ==
    IF protocols = <<>> THEN FALSE
    ELSE Head(protocols).Type = ProtocolTypeREST \/ HasRest(Tail(protocols))

\* ResolveFailure answering not-found for a resource without a REST binding.
ResolveFailureOneStatus(conf, rid, ct) ==
    LET pm == ParseMediaType(ct)
        res == FindResource(conf, rid)
    IN IF pm.err # "" THEN respondWithBadRequest(pm.err)
       ELSE IF ~res.found \/ ~HasRest(res.Protocols)
            THEN respondWithNotFound("Resource does not exist")
            ELSE NoResp

\* ResolveFailure looking the resource up before it parses the header.
ResolveFailureLookupFirst(conf, rid, ct) ==
    LET pm == ParseMediaType(ct)
        res == FindResource(conf, rid)
    IN IF ~res.found THEN respondWithNotFound("Resource does not exist")
       ELSE IF pm.err # "" THEN respondWithBadRequest(pm.err)
       ELSE IF ~HasRest(res.Protocols)
            THEN respondWithUnsupportedMediaType(
                     "Media type is not supported by this resource")
            ELSE NoResp

\* The checks both handlers run before anything is dispatched: the response
\* of the failing check, or NoResp when the call passes.
ResolveFailure(conf, rid, ct) ==
    LET pm == ParseMediaType(ct)
        res == FindResource(conf, rid)
    IN IF pm.err # "" THEN respondWithBadRequest(pm.err)
       ELSE IF ~res.found THEN respondWithNotFound("Resource does not exist")
       ELSE IF ~HasRest(res.Protocols)
            THEN respondWithUnsupportedMediaType(
                     "Media type is not supported by this resource")
            ELSE NoResp

\* ioutil.ReadAll(req.Body): the bytes of the body, or a read error.
ReadOutcomes ==
    {[body |-> b, err |-> ""] : b \in Bodies} \cup {[body |-> "", err |-> ReadError]}

\* MakeReplyChan handing out one pooled channel.
MakePooledChan(n) == 1

\* make(chan AgentResponse): a channel no earlier call of make returned.
MakeReplyChan(n) == n + 1

ReadDataRequest(rid, ch) ==
    [ResourceId |-> rid, Type |-> DataRequestTypeRead, Arguments |-> NoArgs, Reply |-> ch]

\* WriteDataRequest that leaves the body out.
WriteDataRequestNoBody(rid, body, ch) ==
    [ResourceId |-> rid, Type |-> DataRequestTypeWrite, Arguments |-> NoArgs, Reply |-> ch]

WriteDataRequest(rid, body, ch) ==
    [ResourceId |-> rid, Type |-> DataRequestTypeWrite,
     Arguments |-> [isNil |-> FALSE, bytes |-> body], Reply |-> ch]

HandlerOf(c) == mux[req[c].uri]

\* ----------------------------------------------------------------- actions
\* RESTfulAPI.start: mount the resources, then serve.
Start ==
    /\ phase = "init"
    /\ LET m == mountResources(config)
       IN /\ phase' = IF m.panicked THEN "panicked" ELSE "serving"
          /\ mux' = IF m.panicked THEN NoHandlers ELSE m.handlers
    /\ UNCHANGED <<config, callVars, abandoned, nchan, dataCh, dataChCap, held, agentDead>>
    /\ UNCHANGED <<sent, bodyRead, regVars>>

\* An inbound request is routed by its path to the handler mounted there.
Arrive(c, method, uri, ct) ==
    /\ phase = "serving"
    /\ pc[c] = "Idle"
    /\ \A d \in Calls : d < c => pc[d] # "Idle"
    /\ uri \in DOMAIN mux
    /\ pc' = [pc EXCEPT ![c] = "Resolving"]
    /\ req' = [req EXCEPT ![c] = [method |-> method, uri |-> uri, contentType |-> ct]]
    /\ UNCHANGED <<phase, config, mux, mediaType, dr, repl, resp, abandoned,
                   nchan, dataCh, dataChCap, held, agentDead>>
    /\ UNCHANGED <<sent, bodyRead, regVars>>

\* Fail without the return: the response is written and the handler goes on.
FailWithoutReturn(c, r) ==
    /\ resp' = [resp EXCEPT ![c] = r]
    /\ UNCHANGED <<pc, dr, nchan>>

\* An early exit of a handler: respondWith..., then return.
Fail(c, r) ==
    /\ pc' = [pc EXCEPT ![c] = "Failed"]
    /\ resp' = [resp EXCEPT ![c] = r]
    /\ UNCHANGED <<dr, nchan>>

Dispatch(c, request) ==
    /\ pc' = [pc EXCEPT ![c] = "Dispatched"]
    /\ dr' = [dr EXCEPT ![c] = request]
    /\ nchan' = request.Reply
    /\ UNCHANGED resp

\* createResourceGetHandler, up to the send on dataCh.
ResolveGet(c) ==
    /\ pc[c] = "Resolving"
    /\ HandlerOf(c).kind = "GET"
    /\ LET rid == HandlerOf(c).resourceId
           failure == ResolveFailure(config, rid, req[c].contentType)
       IN /\ mediaType' = [mediaType EXCEPT ![c] = ParseMediaType(req[c].contentType).mediaType]
          /\ IF failure # NoResp THEN Fail(c, failure)
             ELSE Dispatch(c, ReadDataRequest(rid, MakeReplyChan(nchan)))
    /\ UNCHANGED <<phase, config, mux, req, repl, abandoned, dataCh, dataChCap, held, agentDead>>
    /\ UNCHANGED <<sent, bodyRead, regVars>>

\* createResourcePutHandler, up to the send on dataCh.
ResolvePut(c) ==
    /\ pc[c] = "Resolving"
    /\ HandlerOf(c).kind = "PUT"
    /\ LET rid == HandlerOf(c).resourceId
           failure == ResolveFailure(config, rid, req[c].contentType)
       IN /\ mediaType' = [mediaType EXCEPT ![c] = ParseMediaType(req[c].contentType).mediaType]
          /\ IF failure # NoResp THEN Fail(c, failure) /\ UNCHANGED bodyRead
             ELSE \E rd \in ReadOutcomes :
                    /\ bodyRead' = [bodyRead EXCEPT ![c] =
                                       [done |-> TRUE, body |-> rd.body, err |-> rd.err]]
                    /\ IF rd.err # "" THEN Fail(c, respondWithBadRequest(rd.err))
                       ELSE Dispatch(c, WriteDataRequest(rid, rd.body, MakeReplyChan(nchan)))
    /\ UNCHANGED <<phase, config, mux, req, repl, abandoned, dataCh, dataChCap, held, agentDead>>
    /\ UNCHANGED <<sent, regVars>>

\* The agent subsystem can take a request now.
AgentReady == ~agentDead /\ Cardinality(held) < MaxAgentHeld

\* self.dataCh <- dr completes into a free slot of the channel's buffer.
SendBuffered(c) ==
    /\ pc[c] = "Dispatched"
    /\ Len(dataCh) < dataChCap
    /\ dataCh' = Append(dataCh, c)
    /\ pc' = [pc EXCEPT ![c] = "Awaiting"]
    /\ UNCHANGED <<phase, config, mux, req, mediaType, dr, repl, resp, abandoned,
                   nchan, dataChCap, held, agentDead>>
    /\ sent' = [sent EXCEPT ![c] = @ + 1]
    /\ UNCHANGED <<bodyRead, regVars>>

\* SendHandoff that waits until the agent holds no other request.
SendHandoffSerial(c) ==
    /\ pc[c] = "Dispatched"
    /\ dataCh = <<>>
    /\ AgentReady
    /\ held = {}
    /\ held' = held \cup {c}
    /\ pc' = [pc EXCEPT ![c] = "Awaiting"]
    /\ UNCHANGED <<phase, config, mux, req, mediaType, dr, repl, resp, abandoned,
                   nchan, dataCh, dataChCap, agentDead>>
    /\ sent' = [sent EXCEPT ![c] = @ + 1]
    /\ UNCHANGED <<bodyRead, regVars>>

\* self.dataCh <- dr completes by handing dr to a receiving agent.
SendHandoff(c) ==
    /\ pc[c] = "Dispatched"
    /\ dataCh = <<>>
    /\ AgentReady
    /\ held' = held \cup {c}
    /\ pc' = [pc EXCEPT ![c] = "Awaiting"]
    /\ UNCHANGED <<phase, config, mux, req, mediaType, dr, repl, resp, abandoned,
                   nchan, dataCh, dataChCap, agentDead>>
    /\ sent' = [sent EXCEPT ![c] = @ + 1]
    /\ UNCHANGED <<bodyRead, regVars>>

\* The agent receives the oldest buffered request.
AgentReceive ==
    /\ dataCh # <<>>
    /\ AgentReady
    /\ held' = held \cup {Head(dataCh)}
    /\ dataCh' = Tail(dataCh)
    /\ UNCHANGED <<phase, config, mux, callVars, abandoned, nchan, dataChCap, agentDead>>
    /\ UNCHANGED <<sent, bodyRead, regVars>>

\* Complete that drops an error reply and goes back to waiting.
CompleteDropsError(c, r) ==
    IF r.IsError THEN UNCHANGED <<repl, resp, pc>>
    ELSE /\ repl' = [repl EXCEPT ![c] = r]
         /\ resp' = [resp EXCEPT ![c] =
                       IF HandlerOf(c).kind = "GET" THEN GetResponse(mediaType[c], r)
                       ELSE PutResponse(mediaType[c], r)]
         /\ pc' = [pc EXCEPT ![c] = "Delivered"]

\* Complete that sends the request again when the agent reports an error.
CompleteRetriesOnError(c, r) ==
    IF r.IsError THEN pc' = [pc EXCEPT ![c] = "Dispatched"] /\ UNCHANGED <<repl, resp>>
    ELSE /\ repl' = [repl EXCEPT ![c] = r]
         /\ resp' = [resp EXCEPT ![c] =
                       IF HandlerOf(c).kind = "GET" THEN GetResponse(mediaType[c], r)
                       ELSE PutResponse(mediaType[c], r)]
         /\ pc' = [pc EXCEPT ![c] = "Delivered"]

\* repl := <-dr.Reply and the rest of the handler.
Complete(c, r) ==
    /\ repl' = [repl EXCEPT ![c] = r]
    /\ resp' = [resp EXCEPT ![c] =
                  IF HandlerOf(c).kind = "GET" THEN GetResponse(mediaType[c], r)
                  ELSE PutResponse(mediaType[c], r)]
    /\ pc' = [pc EXCEPT ![c] = IF r.IsError THEN "Failed" ELSE "Delivered"]

\* Receivers when a handler stops receiving once its caller is abandoned.
ReceiversNotAbandoned(ch) ==
    {c \in Calls : pc[c] = "Awaiting" /\ dr[c].Reply = ch /\ ~abandoned[c]}

\* Receivers when replies are handed out in dispatch order only.
ReceiversInOrder(ch) ==
    {c \in Calls : /\ pc[c] = "Awaiting"
                   /\ dr[c].Reply = ch
                   /\ \A d \in Calls : pc[d] = "Awaiting" => dr[d].Reply >= ch}

\* Receivers when every waiting handler receives from one shared channel.
ReceiversAny(ch) == {c \in Calls : pc[c] = "Awaiting"}

\* The calls receiving on channel ch.
Receivers(ch) == {c \in Calls : pc[c] = "Awaiting" /\ dr[c].Reply = ch}

\* The agent answers the request of call h: its send on that request's Reply
\* channel meets the receive of a handler waiting on that channel.
AgentReply(h, isError, payload) ==
    /\ ~agentDead
    /\ h \in held
    /\ \E c \in Receivers(dr[h].Reply) :
          Complete(c, [IsError |-> isError, Payload |-> payload, answers |-> h])
    /\ held' = held \ {h}
    /\ UNCHANGED <<phase, config, mux, req, mediaType, dr, abandoned,
                   nchan, dataCh, dataChCap, agentDead>>
    /\ UNCHANGED <<sent, bodyRead, regVars>>

\* The transport gives up on a caller (http.Server timeouts, a disconnect);
\* the handler goroutine is not interrupted.
TransportTimeout(c) ==
    /\ pc[c] \in {"Dispatched", "Awaiting"}
    /\ ~abandoned[c]
    /\ abandoned' = [abandoned EXCEPT ![c] = TRUE]
    /\ UNCHANGED <<phase, config, mux, callVars, nchan, dataCh, dataChCap, held, agentDead>>
    /\ UNCHANGED <<sent, bodyRead, regVars>>

\* The agent subsystem stops for good.
AgentCrash ==
    /\ phase = "serving"
    /\ ~agentDead
    /\ agentDead' = TRUE
    /\ UNCHANGED <<phase, config, mux, callVars, abandoned, nchan, dataCh, dataChCap, held>>
    /\ UNCHANGED <<sent, bodyRead, regVars>>

\* Every step of a running server other than the start and the arrivals.
Serve ==
    \/ \E c \in Calls : ResolveGet(c)
    \/ \E c \in Calls : ResolvePut(c)
    \/ \E c \in Calls : SendBuffered(c)
    \/ \E c \in Calls : SendHandoff(c)
    \/ AgentReceive
    \/ \E h \in Calls, isError \in BOOLEAN, payload \in Payloads :
          AgentReply(h, isError, payload)
    \/ \E c \in Calls : TransportTimeout(c)

Arrivals ==
    \E c \in Calls, method \in Methods, uri \in DOMAIN mux, ct \in CtHeaders :
        Arrive(c, method, uri, ct)

Next == Start \/ Arrivals \/ Serve \/ AgentCrash

Spec == Init /\ [][Next]_vars

\* The handlers constructed directly, for any resource id: one the
\* configuration mounts, one without a REST binding, one it does not know.
DirectRids == {<<"d1", "temp">>, <<"d1", "lux">>, <<"d1", "gone">>}

DirectHandlers ==
    [u \in Methods \X DirectRids |->
        IF u[1] = "GET" THEN createResourceGetHandler(u[2])
        ELSE createResourcePutHandler(u[2])]

StartDirect ==
    /\ phase = "init"
    /\ phase' = "serving"
    /\ mux' = DirectHandlers
    /\ UNCHANGED <<config, callVars, abandoned, nchan, dataCh, dataChCap, held, agentDead>>
    /\ UNCHANGED <<sent, bodyRead, regVars>>

\* A request handed to a handler whose method it names.
DirectArrivals ==
    \E c \in Calls, uri \in DOMAIN mux, ct \in CtHeaders :
        Arrive(c, mux[uri].kind, uri, ct)

NextHandler == StartDirect \/ DirectArrivals \/ Serve \/ AgentCrash

HandlerSpec == Init /\ [][NextHandler]_vars

\* The handler goroutines are scheduled: a handler step that stays possible
\* is taken.
HandlerFairness ==
    \A c \in Calls :
        /\ WF_vars(ResolveGet(c))
        /\ WF_vars(ResolvePut(c))
        /\ WF_vars(SendBuffered(c))
        /\ WF_vars(SendHandoff(c))

\* A fair agent: it receives every request and answers every request it holds.
AgentFairness ==
    /\ WF_vars(AgentReceive)
    /\ \A h \in Calls :
          WF_vars(\E isError \in BOOLEAN, payload \in Payloads : AgentReply(h, isError, payload))

NextLive == Start \/ Arrivals \/ Serve

\* The server with an agent that never stops and is fair.
FairAgentSpec == Init /\ [][NextLive]_vars /\ HandlerFairness /\ AgentFairness

\* The server with scheduled handlers and a transport whose timeouts fire,
\* and an agent that owes nothing.
TimeoutSpec ==
    Init /\ [][Next]_vars /\ HandlerFairness
         /\ \A c \in Calls : WF_vars(TransportTimeout(c))

\* ------------------------------------------------------------------ claims
Pending == {"Dispatched", "Awaiting"}

\* C1: with a fair agent every call that was dispatched reaches a terminal
\* outcome (Delivered or Failed), and a terminal outcome is never left or
\* rewritten: no call stays in Dispatched or Awaiting forever.
C1_DispatchedCallsTerminate ==
    /\ \A c \in Calls : (pc[c] \in Pending) ~> (pc[c] \in Terminal)
    /\ [][\A c \in Calls : pc[c] \in Terminal => pc'[c] = pc[c] /\ resp'[c] = resp[c]]_vars

C1_Witness ==
    \E c \in Calls : pc[c] \in Terminal /\ dr[c] # NoDr /\ repl[c].answers = c

\* C2: when the agent subsystem has stopped and never answers, a dispatched
\* call still ends with a failure outcome observed by its caller.
C2_UnansweredCallFails ==
    \A c \in Calls : (agentDead /\ pc[c] \in Pending) ~> (pc[c] = "Failed")

\* C3: the agent's send on the Reply channel of a call whose caller was
\* abandoned always finds that call's handler receiving, so it never blocks.
C3_AbandonedSendNeverBlocks ==
    \A h \in held : abandoned[h] => h \in Receivers(dr[h].Reply)

C3_Witness ==
    \E c \in Calls : abandoned[c] /\ pc[c] \in Terminal /\ repl[c].answers = c

\* C4: a reply to one call completes that call with its own reply and
\* leaves every other waiting call waiting; and the agent can answer any
\* request it holds whatever else is outstanding.
C4_IndependentCompletion ==
    /\ [](\A b \in held : ~agentDead =>
             ENABLED (\E e \in BOOLEAN, p \in Payloads : AgentReply(b, e, p)))
    /\ [][\A a, b \in Calls :
            (a # b /\ pc[a] = "Awaiting" /\ pc[b] = "Awaiting" /\ pc'[b] \in Terminal)
                => (repl'[b].answers = b /\ pc'[a] = "Awaiting" /\ repl'[a] = repl[a])]_vars

\* B was dispatched after A and completed while A still waits for the agent.
C4_Witness ==
    \E a, b \in Calls :
        /\ dr[a] # NoDr /\ dr[a].Reply < dr[b].Reply
        /\ a \in held /\ pc[a] = "Awaiting"
        /\ pc[b] \in Terminal /\ repl[b].answers = b

\* self.dataCh <- dr can complete now.
CanSend(c) == ENABLED (SendBuffered(c) \/ SendHandoff(c))

\* C5 as stated: a call in Dispatched is never held at the send on dataCh.
C5_SendNeverBlocks ==
    \A c \in Calls : pc[c] = "Dispatched" => CanSend(c)

\* C5 amended: resolution never blocks; the send on dataCh blocks only while
\* the intake channel has no free slot and no agent receive can take the
\* request; a call past the send waits on its own Reply channel only.
C5_BlocksOnlyAtChannels ==
    \A c \in Calls :
        /\ pc[c] = "Resolving" => ENABLED (ResolveGet(c) \/ ResolvePut(c))
        /\ (pc[c] = "Dispatched" /\ ~CanSend(c))
              => (Len(dataCh) >= dataChCap /\ (dataCh # <<>> \/ ~AgentReady))
        /\ (pc[c] = "Awaiting" /\ c \in held /\ ~agentDead)
              => ENABLED (\E e \in BOOLEAN, p \in Payloads : AgentReply(c, e, p))

\* A call is held at the send although the agent is alive.
C5_Witness ==
    \E c \in Calls : pc[c] = "Dispatched" /\ ~CanSend(c) /\ ~agentDead

Dispatched(c) == dr[c] # NoDr

\* C6: no two DataRequests ever created carry the same Reply channel, and
\* every Reply channel was made by the call that carries it.
C6_FreshReplyChannel ==
    /\ \A c, d \in Calls : (c # d /\ Dispatched(c) /\ Dispatched(d))
                              => dr[c].Reply # dr[d].Reply
    /\ \A c \in Calls : Dispatched(c) => dr[c].Reply \in 1..nchan
    /\ Cardinality({c \in Calls : Dispatched(c)}) = nchan

C6_Witness ==
    \E c, d \in Calls : c # d /\ Dispatched(c) /\ Dispatched(d)
                        /\ dr[c].ResourceId = dr[d].ResourceId

\* C7: the reply a call turned into its result is the one the agent sent in
\* answer to that call's own DataRequest, and a call that has not completed
\* has consumed no reply.
C7_ReplyCorrelation ==
    \A c \in Calls :
        /\ repl[c] # NoRepl => (repl[c].answers = c /\ pc[c] \in Terminal)
        /\ (Dispatched(c) /\ pc[c] \in Terminal) => repl[c].answers = c
        /\ pc[c] \in Pending => repl[c] = NoRepl

\* Two calls were outstanding together and each completed with its own reply.
C7_Witness ==
    \E c, d \in Calls :
        /\ c # d /\ pc[c] \in Terminal /\ pc[d] \in Terminal
        /\ repl[c].answers = c /\ repl[d].answers = d
        /\ repl[c].Payload # repl[d].Payload

RECURSIVE SeqToSet(_)
SeqToSet(q) == IF q = <<>> THEN {} ELSE {Head(q)} \cup SeqToSet(Tail(q))

RECURSIVE RestMethodsOf(_)
RestMethodsOf(protocols) ==
    IF protocols = <<>> THEN {}
    ELSE (IF Head(protocols).Type = ProtocolTypeREST
          THEN SeqToSet(Head(protocols).Methods) ELSE {})
         \cup RestMethodsOf(Tail(protocols))

\* The methods the REST bindings of the resource behind a call's URI list.
BoundMethods(c) == RestMethodsOf(FindResource(config, HandlerOf(c).resourceId).Protocols)

Resolved(c) == pc[c] \notin {"Idle", "Resolving"}

ParsesOk(c) == ParseMediaType(req[c].contentType).err = ""

\* C8: a PUT to the URI of a resource whose only REST binding lists GET ends
\* Failed with an unsupported-operation status, and nothing is dispatched.
C8_PutOnGetOnlyUnsupported ==
    \A c \in Calls :
        (Resolved(c) /\ ParsesOk(c) /\ req[c].method = "PUT" /\ BoundMethods(c) = {"GET"})
            => /\ pc[c] = "Failed"
               /\ resp[c].status \in {StatusMethodNotAllowed, StatusUnsupportedMediaType}
               /\ ~Dispatched(c)

\* C9: a call that reaches the lookup with a resource id FindResource does not
\* know ends Failed with 404; one whose resource has no REST binding ends
\* Failed with 415; neither creates a Reply channel or a DataRequest.
C9_ResolutionFailures ==
    /\ \A c \in Calls :
          LET res == FindResource(config, HandlerOf(c).resourceId)
          IN (Resolved(c) /\ ParsesOk(c)) =>
                /\ ~res.found =>
                      (pc[c] = "Failed" /\ resp[c].status = StatusNotFound /\ ~Dispatched(c))
                /\ (res.found /\ ~HasRest(res.Protocols)) =>
                      (/\ pc[c] = "Failed"
                       /\ resp[c].status = StatusUnsupportedMediaType
                       /\ ~Dispatched(c))
    /\ nchan = Cardinality({c \in Calls : Dispatched(c)})
    /\ \A c \in Calls : ~Dispatched(c) => (c \notin held /\ \A i \in 1..Len(dataCh) : dataCh[i] # c)

\* Both resolution failures happened: an unknown id, and a known resource
\* without a REST binding.
C9_Witness ==
    \E c, d \in Calls :
        /\ pc[c] = "Failed" /\ resp[c].status = StatusNotFound
        /\ pc[d] = "Failed" /\ resp[d].status = StatusUnsupportedMediaType
        /\ FindResource(config, HandlerOf(d).resourceId).found

\* C10 as stated: every delivered call, read or write, hands the reply's
\* payload to the caller under the call's content type.
C10_PayloadPassedThrough ==
    \A c \in Calls :
        pc[c] = "Delivered" =>
            (resp[c].kind = "bytes" /\ resp[c].body = repl[c].Payload
             /\ resp[c].contentType = mediaType[c])

\* C10 amended: a delivered read hands the reply's payload over unmodified
\* with status 200; a delivered write answers 204 with no body; both carry
\* the media type parsed from the request's Content-Type header.
C10_DeliveredResponse ==
    \A c \in Calls :
        pc[c] = "Delivered" =>
            /\ resp[c].contentType = ParseMediaType(req[c].contentType).mediaType
            /\ dr[c].Type = DataRequestTypeRead =>
                  (/\ resp[c].status = StatusOK
                   /\ resp[c].kind = "bytes"
                   /\ resp[c].body = repl[c].Payload)
            /\ dr[c].Type = DataRequestTypeWrite =>
                  (/\ resp[c].status = StatusNoContent
                   /\ resp[c].kind = "none"
                   /\ resp[c].body = "")

\* A read and a write were both delivered, the read with a non-empty payload
\* and the write although the agent's reply carried one.
C10_Witness ==
    \E c, d \in Calls :
        /\ pc[c] = "Delivered" /\ dr[c].Type = DataRequestTypeRead /\ resp[c].body # ""
        /\ pc[d] = "Delivered" /\ dr[d].Type = DataRequestTypeWrite /\ repl[d].Payload # ""

\* C11: a reply with IsError set ends the call Failed with status 500 and
\* the JSON error body whose field error is the reply's payload; a delivered
\* call never had an error reply.
C11_AgentErrorFails ==
    \A c \in Calls :
        /\ (repl[c] # NoRepl /\ repl[c].IsError) =>
              /\ pc[c] = "Failed"
              /\ resp[c] = [status |-> StatusInternalServerError,
                            contentType |-> "application/json",
                            kind |-> "json", body |-> repl[c].Payload]
        /\ pc[c] = "Delivered" => (repl[c] # NoRepl /\ ~repl[c].IsError)

\* A read and a write both failed on an agent error that carried a payload.
C11_Witness ==
    \E c, d \in Calls :
        /\ dr[c].Type = DataRequestTypeRead /\ dr[d].Type = DataRequestTypeWrite
        /\ repl[c].IsError /\ repl[d].IsError
        /\ repl[c].Payload # "" /\ repl[d].Payload # ""
        /\ pc[c] = "Failed" /\ pc[d] = "Failed"

\* C12: the GET handler's DataRequest is a read with nil Arguments, the PUT
\* handler's a write whose Arguments are the body ReadAll returned; both name
\* the resource the request's URI was mounted for.
C12_DataRequestContents ==
    \A c \in Calls :
        Dispatched(c) =>
            /\ dr[c].ResourceId = <<req[c].uri[2], req[c].uri[3]>>
            /\ HandlerOf(c).kind = "GET" =>
                  (dr[c].Type = DataRequestTypeRead /\ dr[c].Arguments.isNil)
            /\ HandlerOf(c).kind = "PUT" =>
                  /\ dr[c].Type = DataRequestTypeWrite
                  /\ ~dr[c].Arguments.isNil
                  /\ bodyRead[c].done /\ bodyRead[c].err = ""
                  /\ dr[c].Arguments.bytes = bodyRead[c].body

\* A read, and a write with a non-empty body, were both dispatched.
C12_Witness ==
    \E c, d \in Calls :
        /\ Dispatched(c) /\ dr[c].Type = DataRequestTypeRead
        /\ Dispatched(d) /\ dr[d].Type = DataRequestTypeWrite /\ bodyRead[d].body # ""

RECURSIVE SumSent(_)
SumSent(n) == IF n = 0 THEN 0 ELSE sent[n] + SumSent(n - 1)

InDataCh(c) == \E i \in 1..Len(dataCh) : dataCh[i] = c

\* C13: a call sends at most one DataRequest on dataCh, and only after it
\* passed resolution; the sends never outnumber the calls that passed
\* resolution, and a request is in the channel or with the agent only once.
C13_NoRetry ==
    /\ \A c \in Calls :
          /\ sent[c] <= 1
          /\ sent[c] = 1 => (Dispatched(c) /\ pc[c] \in {"Awaiting", "Delivered", "Failed"})
          /\ (InDataCh(c) \/ c \in held) => (sent[c] = 1 /\ pc[c] = "Awaiting")
          /\ ~(InDataCh(c) /\ c \in held)
          /\ \A i, j \in 1..Len(dataCh) : (dataCh[i] = c /\ dataCh[j] = c) => i = j
    /\ SumSent(MaxCalls) <= Cardinality({c \in Calls : Dispatched(c)})

\* One call failed on an agent error and another waits on an agent that has
\* stopped; each sent its request once.
C13_Witness ==
    \E c, d \in Calls :
        /\ pc[c] = "Failed" /\ repl[c].IsError /\ sent[c] = 1
        /\ pc[d] = "Awaiting" /\ agentDead /\ abandoned[d] /\ sent[d] = 1

\* The moves of a call between its states.
CallMoves ==
    {<<"Idle", "Resolving">>, <<"Resolving", "Dispatched">>, <<"Resolving", "Failed">>,
     <<"Dispatched", "Awaiting">>, <<"Awaiting", "Delivered">>, <<"Awaiting", "Failed">>}

C16_CallStep ==
    \A c \in Calls :
        /\ pc'[c] # pc[c] => <<pc[c], pc'[c]>> \in CallMoves
        /\ repl'[c] # repl[c] =>
              (pc[c] = "Awaiting" /\ sent[c] = 1 /\ repl[c] = NoRepl /\ pc'[c] \in Terminal)
        /\ resp'[c] # resp[c] =>
              (resp[c] = NoResp /\ pc[c] \notin Terminal /\ pc'[c] \in Terminal)
        /\ pc[c] \in Terminal => (pc'[c] = pc[c] /\ resp'[c] = resp[c] /\ repl'[c] = repl[c])

C16_CallState ==
    \A c \in Calls :
        /\ pc[c] \in Terminal <=> resp[c] # NoResp
        /\ repl[c] # NoRepl => (Dispatched(c) /\ sent[c] = 1 /\ pc[c] \in Terminal)
        /\ pc[c] = "Delivered" => (Dispatched(c) /\ sent[c] = 1 /\ repl[c] # NoRepl)
        /\ pc[c] \in {"Dispatched", "Awaiting"} => Dispatched(c)
        /\ pc[c] \in {"Idle", "Resolving"} => (~Dispatched(c) /\ sent[c] = 0)

\* C16: a call only moves Resolving -> Dispatched -> Awaiting -> Delivered
\* or Failed, or Resolving -> Failed.  It receives its reply only while
\* Awaiting, after its one send; Delivered implies a DataRequest was made and
\* sent; the response is written once, on entering a terminal state, and a
\* terminal state is never left.
C16_CallStateMachine == [](C16_CallState) /\ [][C16_CallStep]_vars

\* One call went through Dispatched and Awaiting to Delivered, another
\* failed in resolution without a DataRequest.
C16_Witness ==
    \E c, d \in Calls :
        /\ pc[c] = "Delivered" /\ Dispatched(c)
        /\ pc[d] = "Failed" /\ ~Dispatched(d)

\* C17: routing by method.  Once mountResources has run the server serves,
\* and for every resource with a REST binding and every method the binding
\* lists, GET, PUT or both, the resource's URI leads to the handler of that
\* method for that resource's id; a call with a listed method makes the
\* DataRequest of its method: GET a read, PUT a write.
C17_RoutingByMethod ==
    /\ phase # "init" =>
          /\ phase = "serving"
          /\ \A i \in 1..Len(config) : \A j \in 1..Len(config[i].Resources) :
                LET device == config[i]
                    resource == device.Resources[j]
                    uri == ResourceUri(device, resource)
                IN \A m \in RestMethodsOf(resource.Protocols) \cap Methods :
                      /\ uri \in DOMAIN mux
                      /\ mux[uri].kind = m
                      /\ mux[uri].resourceId = ResourceId(device, resource.Name)
    /\ \A c \in Calls :
          (Dispatched(c) /\ req[c].method \in BoundMethods(c)) =>
              /\ dr[c].ResourceId = <<req[c].uri[2], req[c].uri[3]>>
              /\ dr[c].Type = (IF req[c].method = "GET" THEN DataRequestTypeRead
                               ELSE DataRequestTypeWrite)

\* The response of respondWithBadRequest, field by field.
BadRequestWith(msg) ==
    [status |-> StatusBadRequest, contentType |-> "application/json",
     kind |-> "json", body |-> msg]

\* C18: a call whose Content-Type is missing or does not parse ends Failed
\* with 400 and the JSON error body carrying the parser's message, whatever
\* the resource lookup would have said, and its body is never read; a PUT
\* whose body cannot be read ends Failed with 400 and the read error.  Such
\* a call has no DataRequest, no Reply channel and nothing sent on dataCh.
C18_InputErrorsFailCleanly ==
    /\ \A c \in Calls :
          /\ (Resolved(c) /\ ~ParsesOk(c)) =>
                /\ pc[c] = "Failed"
                /\ resp[c] = BadRequestWith(ParseMediaType(req[c].contentType).err)
                /\ ~bodyRead[c].done
                /\ ~Dispatched(c) /\ sent[c] = 0 /\ c \notin held /\ ~InDataCh(c)
          /\ bodyRead[c].err # "" =>
                /\ HandlerOf(c).kind = "PUT"
                /\ pc[c] = "Failed"
                /\ resp[c] = BadRequestWith(bodyRead[c].err)
                /\ ~Dispatched(c) /\ sent[c] = 0 /\ c \notin held /\ ~InDataCh(c)
    /\ nchan = Cardinality({c \in Calls : Dispatched(c) /\ ParsesOk(c) /\ bodyRead[c].err = ""})

\* A read of an unknown resource failed on its missing header, and a write
\* failed on its unreadable body.
C18_Witness ==
    \E c, d \in Calls :
        /\ pc[c] = "Failed" /\ resp[c].status = StatusBadRequest
        /\ pc[d] = "Failed" /\ resp[d].status = StatusBadRequest
        /\ HandlerOf(c).kind = "GET" /\ req[c].contentType = ""
        /\ ~FindResource(config, HandlerOf(c).resourceId).found
        /\ HandlerOf(d).kind = "PUT" /\ bodyRead[d].err # ""

\* ---------------------------------------------------------- service catalog
\* The standalone service catalog (main of the service-catalog command): the
\* routes it mounts, and the catalog API behind them.
MaxPage == 4
MaxPerPage == 3

RegNames == {"a", "b"}
RegIds == {<<"h1", "a">>, <<"h1", "b">>, <<"h1", "c">>}
RegStatus == {"on", "off"}

\* The descriptors a client may send: the id may be absent, the name empty.
Descriptors ==
    [id : {NoId}, name : RegNames \cup {""}, status : RegStatus]
    \cup [id : RegIds, name : {"a"}, status : {"on"}]

RegRequests ==
    {RegRequest("POST", "base/", NoId, d, 0, 0) : d \in Descriptors}
    \cup {RegRequest("DELETE", "base", NoId, NoDescriptor, 0, 0)}
    \cup {RegRequest("PUT", "item", i, [id |-> i, name |-> "a", status |-> "off"], 0, 0) :
             i \in RegIds}
    \cup {RegRequest(m, "item", i, NoDescriptor, 0, 0) : m \in {"GET", "DELETE"}, i \in RegIds}
    \cup {RegRequest("GET", "base", NoId, NoDescriptor, pg, pp) :
             pg \in 0..MaxPage, pp \in 0..MaxPerPage}
    \cup {RegRequest("GET", "filter", NoId, [id |-> NoId, name |-> "", status |-> st], 1, MaxPerPage) :
             st \in RegStatus}

\* The pat routes main registers: the handler a request reaches.
Route(method, path) ==
    CASE method = "POST" /\ path = "base/" -> "Add"
      [] method = "GET" /\ path = "item" -> "Get"
      [] method = "GET" /\ path = "filter" -> "Filter"
      [] method = "PUT" /\ path = "item" -> "Update"
      [] method = "DELETE" /\ path = "item" -> "Delete"
      [] method = "GET" /\ path = "base" -> "List"
      [] OTHER -> "none"

StoreIds(st) == {st[i].id : i \in 1..Len(st)}
IndexOf(st, id) == CHOOSE i \in 1..Len(st) : st[i].id = id

\* The identifier of a descriptor: its own, or the one assigned from the
\* owner and the name.
AssignId(d) == IF d.id = NoId THEN [d EXCEPT !.id = <<"h1", d.name>>] ELSE d

Outcome(st, status, items) == [store |-> st, status |-> status, items |-> items]

\* RegistryAdd without the look-up of the identifier.
RegistryAddUnchecked(st, d) ==
    IF d.name = "" THEN Outcome(st, "ValidationError", <<>>)
    ELSE Outcome(Append(st, AssignId(d)), "Created", <<AssignId(d)>>)

\* add(descriptor)
RegistryAdd(st, d) ==
    IF d.name = "" THEN Outcome(st, "ValidationError", <<>>)
    ELSE IF AssignId(d).id \in StoreIds(st) THEN Outcome(st, "Conflict", <<>>)
    ELSE Outcome(Append(st, AssignId(d)), "Created", <<AssignId(d)>>)

\* update(id, descriptor): full replace
RegistryUpdate(st, id, d) ==
    IF d.name = "" THEN Outcome(st, "ValidationError", <<>>)
    ELSE IF id \notin StoreIds(st) THEN Outcome(st, "NotFound", <<>>)
    ELSE Outcome([st EXCEPT ![IndexOf(st, id)] = [d EXCEPT !.id = id]], "OK", <<>>)

\* delete(id)
RegistryDelete(st, id) ==
    IF id \notin StoreIds(st) THEN Outcome(st, "NotFound", <<>>)
    ELSE LET k == IndexOf(st, id)
         IN Outcome(SubSeq(st, 1, k - 1) \o SubSeq(st, k + 1, Len(st)), "OK", <<>>)

\* get(id)
RegistryGet(st, id) ==
    IF id \notin StoreIds(st) THEN Outcome(st, "NotFound", <<>>)
    ELSE Outcome(st, "OK", <<st[IndexOf(st, id)]>>)

Max(a, b) == IF a >= b THEN a ELSE b
Min(a, b) == IF a <= b THEN a ELSE b

\* ListPage starting each page one page too far.
ListPageSkipsFirst(q, page, perPage) ==
    LET pp == Max(perPage, 1)
        lo == Min(Max(page, 1) * pp, Len(q))
    IN SubSeq(q, lo + 1, Min(lo + pp, Len(q)))

\* One page of a sequence; page and perPage are clamped to at least 1 and
\* the bounds of the page to the sequence.
ListPage(q, page, perPage) ==
    LET pp == Max(perPage, 1)
        lo == Min((Max(page, 1) - 1) * pp, Len(q))
    IN SubSeq(q, lo + 1, Min(lo + pp, Len(q)))

\* list(page, perPage)
RegistryList(st, page, perPage) == Outcome(st, "OK", ListPage(st, page, perPage))

\* filter("status", "equals", value, page, perPage)
RegistryFilter(st, value, page, perPage) ==
    Outcome(st, "OK", ListPage(SelectSeq(st, LAMBDA x : x.status = value), page, perPage))

\* The catalog serves one request: the route picks the handler.
RegistryRequest(r) ==
    LET h == Route(r.method, r.path)
        o == CASE h = "Add" -> RegistryAdd(store, r.d)
               [] h = "Update" -> RegistryUpdate(store, r.id, r.d)
               [] h = "Delete" -> RegistryDelete(store, r.id)
               [] h = "Get" -> RegistryGet(store, r.id)
               [] h = "List" -> RegistryList(store, r.page, r.perPage)
               [] h = "Filter" -> RegistryFilter(store, r.d.status, r.page, r.perPage)
               [] OTHER -> Outcome(store, "NoRoute", <<>>)
    IN /\ store' = o.store
       /\ regResult' = [request |-> r, handler |-> h, status |-> o.status, items |-> o.items]
       /\ UNCHANGED brokerVars

RegInit == Init /\ config = ConfGetPut /\ dataChCap = 0

RegNext == \E r \in RegRequests : RegistryRequest(r)

RegistrySpec == RegInit /\ [][RegNext]_vars

\* ------------------------------------------------ claims on the catalog
C14_UniqueIds ==
    \A i, j \in 1..Len(store) : i # j => store[i].id # store[j].id

C14_CollidingAdd ==
    LET r == regResult'.request
    IN (/\ r.method = "POST" /\ r.path = "base/"
        /\ r.d.name # ""
        /\ \E i \in 1..Len(store) :
              store[i].id = (IF r.d.id = NoId THEN <<"h1", r.d.name>> ELSE r.d.id))
       => /\ regResult'.status = "Conflict"
          /\ store' = store

\* C14: registry uniqueness.  No two stored descriptors have the same
\* identifier, and an add (POST on the catalog's base URL) of a well-formed
\* descriptor whose identifier is already stored answers Conflict and
\* leaves the store as it was.
C14_RegistryUniqueness == [](C14_UniqueIds) /\ [][C14_CollidingAdd]_vars

\* A colliding add was refused, and the store holds the earlier descriptor,
\* which differs from the refused one.
C14_Witness ==
    /\ regResult.request.method = "POST"
    /\ regResult.status = "Conflict"
    /\ \E i \in 1..Len(store) :
          /\ store[i].id = AssignId(regResult.request.d).id
          /\ store[i] # AssignId(regResult.request.d)
    /\ Len(store) >= 2

\* The first k pages, one after the other.
RECURSIVE ConcatPages(_, _)
ConcatPages(k, perPage) ==
    IF k = 0 THEN <<>>
    ELSE ConcatPages(k - 1, perPage) \o ListPage(store, k, perPage)

ExpectedPage(page, perPage) ==
    LET lo == (page - 1) * perPage
        k == IF lo >= Len(store) THEN 0 ELSE Min(perPage, Len(store) - lo)
    IN [i \in 1..k |-> store[lo + i]]

\* C15: registry pagination.  For every perPage >= 1 the pages 1, 2, ... of
\* the store are pairwise disjoint, in store order, and their concatenation
\* is the store; a list request (GET on the base URL) always answers OK
\* with the page at the clamped position, empty beyond the last descriptor.
C15_Pagination ==
    /\ \A perPage \in 1..MaxPerPage :
          /\ ConcatPages(MaxPage, perPage) = store
          /\ \A p, q \in 1..MaxPage :
                p # q => StoreIds(ListPage(store, p, perPage))
                            \cap StoreIds(ListPage(store, q, perPage)) = {}
          /\ \A p \in 1..MaxPage :
                ListPage(store, p, perPage) = ExpectedPage(p, perPage)
    /\ (regResult.request.method = "GET" /\ regResult.request.path = "base")
          => /\ regResult.handler = "List"
             /\ regResult.status = "OK"
             /\ regResult.items = ExpectedPage(Max(regResult.request.page, 1),
                                               Max(regResult.request.perPage, 1))

\* Page 2 of a three-descriptor store listed two per page is the third
\* descriptor alone.
C15_Witness ==
    /\ Len(store) = 3
    /\ regResult.handler = "List"
    /\ regResult.request.page = 2 /\ regResult.request.perPage = 2
    /\ regResult.items = <<store[3]>>

====
